---- MODULE Spec2Model ----
(***************************************************************************)
(* Session, challenge and suggestion engine of bot.py.                     *)
(*                                                                         *)
(* Every handler opens its own aiosqlite connection (async with            *)
(* aiosqlite.connect(DB_PATH)) and awaits each statement, so handlers of   *)
(* concurrently dispatched updates interleave at every store access.       *)
(* The store is SQLite in its default mode as driven by Python's sqlite3:  *)
(*   - a SELECT outside a transaction reads the committed database;        *)
(*   - the first INSERT/UPDATE/DELETE of a connection opens a transaction  *)
(*     and takes the database write lock, which it keeps until commit()    *)
(*     or until the connection is closed (rollback);                       *)
(*   - a second writer waits for the lock (busy handler);                  *)
(*   - a connection reads its own uncommitted writes.                      *)
(* db is the committed database, tx the working copy of the connection     *)
(* that holds the write lock (tx = db while nobody holds it).              *)
(* Columns created_at and feedback are not modelled: nothing reads them    *)
(* back to decide anything.                                                *)
(***************************************************************************)
EXTENDS Integers, Sequences, FiniteSets, TLC

\* ---------------------------------------------------------------- bounds
\* bot.py:28 sets MAX_ATTEMPTS = 10; the model scales the ceiling down.
MAX_ATTEMPTS == 2
\* Cap on the ordinal a guess may compute: racing guesses can push the
\* counter past every ceiling, so the model stops a guess beyond this one.
MaxOrdinal == 3
NumCodes == 2
NumRounds == 1
NumTokens == 2
\* bot.py:337, range(40)
CODE_TRIES == 40
\* dt.date.today().toordinal() of the day the model runs in
TodayOrdinal == 7

\* Two updates are in flight at a time; two players.
Handlers == {1, 2}
Users == {1, 2}
Codes == 1..NumCodes
Rounds == 1..NumRounds
Tokens == 1..NumTokens

\* ---------------------------------------------------------------- catalog
PLAYERS_BY_ID == {"p1", "p2"}
NoPlayer == ""
\* Candidate lists find_players_by_substring can hand to set_suggestions:
\* non-empty, duplicate-free lists of catalog ids.
ChoiceLists == {<<"p1">>, <<"p2", "p1">>}
Order == <<"p1", "p2">>

\* bot.py:105-115 for the rotation list order and the catalog ids players;
\* today is today.toordinal(), ConfigError the RuntimeError.
puzzle_player_of_the_day_Shifted(order, players, today) ==
  IF order = <<>> THEN "ConfigError"
  ELSE LET pid == order[((today + 1) % Len(order)) + 1]
       IN IF pid \notin players THEN "ConfigError" ELSE pid

puzzle_player_of_the_day_in(order, players, today) ==
  IF order = <<>> THEN "ConfigError"
  ELSE LET pid == order[(today % Len(order)) + 1]
       IN IF pid \notin players THEN "ConfigError" ELSE pid

puzzle_player_of_the_day(today) == puzzle_player_of_the_day_in(Order, PLAYERS_BY_ID, today)

random_player_from_pool == {Order[i] : i \in 1..Len(Order)}

\* ---------------------------------------------------------------- keys
NoKey == <<"none", 0>>
DailyKey(day) == <<"daily", day>>
RandKey(r) == <<"rand", r>>
ChalKey(code) == <<"chal", code>>

\* ---------------------------------------------------------------- tables
EmptyDb ==
  [user_sessions |-> {}, user_attempts |-> {}, user_active |-> {},
   challenges |-> {}, user_suggestions |-> {}]

set_active_session_Keep(d, u, k) == d

set_active_session(d, u, k) ==
  [d EXCEPT !.user_active =
     {r \in @ : r.user_id # u} \cup {[user_id |-> u, session_key |-> k]}]

get_active_session_Daily(d, u) ==
  LET rows == {r \in d.user_active : r.user_id = u}
  IN IF rows = {} THEN DailyKey(TodayOrdinal) ELSE (CHOOSE r \in rows : TRUE).session_key

get_active_session(d, u) ==
  IF \E r \in d.user_active : r.user_id = u
  THEN (CHOOSE r \in d.user_active : r.user_id = u).session_key
  ELSE NoKey

DeleteAttempts_Keep(d, u, k) == d

DeleteAttempts(d, u, k) ==
  [d EXCEPT !.user_attempts =
     {r \in @ : ~(r.user_id = u /\ r.session_key = k)}]

UpsertSession(d, u, k, a) ==
  [d EXCEPT !.user_sessions =
     {r \in @ : ~(r.user_id = u /\ r.session_key = k)}
       \cup {[user_id |-> u, session_key |-> k, answer_id |-> a,
              attempts |-> 0, finished |-> 0]}]

get_session(d, u, k) ==
  {r \in d.user_sessions : r.user_id = u /\ r.session_key = k}

get_history(d, u, k) ==
  {r \in d.user_attempts : r.user_id = u /\ r.session_key = k}

NextOrdinal_Skip(attempts) == attempts + 2

NextOrdinal(attempts) == attempts + 1

UpdateAttempts(d, u, k, n) ==
  [d EXCEPT !.user_sessions =
     {IF r.user_id = u /\ r.session_key = k THEN [r EXCEPT !.attempts = n] ELSE r
        : r \in @}]

AttemptKeyTaken(d, u, k, n) ==
  \E r \in d.user_attempts : r.user_id = u /\ r.session_key = k /\ r.n = n

InsertAttempt(d, u, k, n, g) ==
  [d EXCEPT !.user_attempts =
     @ \cup {[user_id |-> u, session_key |-> k, n |-> n, guess |-> g]}]

finish_session_AnyUser(d, u, k) ==
  [d EXCEPT !.user_sessions =
     {IF r.session_key = k THEN [r EXCEPT !.finished = 1] ELSE r : r \in @}]

finish_session(d, u, k) ==
  [d EXCEPT !.user_sessions =
     {IF r.user_id = u /\ r.session_key = k THEN [r EXCEPT !.finished = 1] ELSE r
        : r \in @}]

clear_suggestions_Noop(d, u) == d

clear_suggestions(d, u) ==
  [d EXCEPT !.user_suggestions = {r \in @ : r.user_id # u}]

set_suggestions(d, u, t, purpose, choices) ==
  [d EXCEPT !.user_suggestions =
     {r \in @ : r.user_id # u}
       \cup {[user_id |-> u, token |-> t, purpose |-> purpose, choices |-> choices]}]

get_suggestions(d, u) == {r \in d.user_suggestions : r.user_id = u}

CodeTaken_Never(d, c) == FALSE

CodeTaken(d, c) == \E r \in d.challenges : r.code = c

InsertChallenge(d, c, a, u) ==
  [d EXCEPT !.challenges =
     @ \cup {[code |-> c, answer_id |-> a, creator_user_id |-> u]}]

get_challenge_answer(d, c) == {r.answer_id : r \in {x \in d.challenges : x.code = c}}

\* ---------------------------------------------------------------- state
\* spent and superseded are history variables, not program state: spent
\* holds the <<player, token>> pairs redeemed since the player's last
\* committed offer, superseded the <<player, token>> pair of the entry the
\* player's latest committed offer has replaced.
\* call is the argument and result record of the pure functions (catalog,
\* search, feedback); the handlers never touch it.
VARIABLES db, tx, lock, hs, spent, superseded, call

vars == <<db, tx, lock, hs, spent, superseded, call>>

NoCall == [fn |-> "none"]

Idle ==
  [pc |-> "idle", op |-> "none", user |-> 0, key |-> NoKey, guess |-> NoPlayer,
   answer |-> NoPlayer, attempts |-> 0, n |-> 0, code |-> 0, tries |-> 0,
   purpose |-> "none", token |-> 0, idx |-> 0, hist |-> {}, reply |-> "none"]

Init ==
  /\ db = EmptyDb
  /\ tx = EmptyDb
  /\ lock = 0
  /\ hs = [h \in Handlers |-> Idle]
  /\ spent = {}
  /\ superseded = {}
  /\ call = NoCall

\* What connection h reads: its own transaction if it has one.
View(h) == IF lock = h THEN tx ELSE db

\* Each statement committed on its own (isolation_level=None).
Write_Autocommit(h, d) ==
  /\ lock \in {0, h}
  /\ tx' = d
  /\ lock' = 0
  /\ db' = d
  /\ UNCHANGED <<spent, superseded>>

\* A write statement of h: waits for the write lock, then changes the
\* working copy.
Write(h, d) ==
  /\ lock \in {0, h}
  /\ tx' = d
  /\ lock' = h
  /\ db' = db
  /\ UNCHANGED <<spent, superseded>>

\* db.commit()
Commit(h) ==
  IF lock = h
  THEN db' = tx /\ tx' = tx /\ lock' = 0
  ELSE UNCHANGED <<db, tx, lock>>

\* The bookkeeping of spent and superseded at a commit of handler record l.
Redeemed(l) ==
  IF l.op = "click"
  THEN /\ spent' = spent \cup {<<l.user, l.token>>}
       /\ superseded' = superseded
  ELSE IF l.op = "offer"
  THEN /\ spent' = {p \in spent : p[1] # l.user}
       /\ superseded' = {p \in superseded : p[1] # l.user} \cup
            {<<l.user, r.token>> : r \in get_suggestions(db, l.user)}
  ELSE UNCHANGED <<spent, superseded>>

\* The connection is closed without commit (return or exception inside
\* async with): an open transaction is rolled back.
Close(h) ==
  /\ IF lock = h
     THEN tx' = db /\ lock' = 0 /\ db' = db
     ELSE UNCHANGED <<db, tx, lock>>
  /\ UNCHANGED <<spent, superseded>>

Goto(h, rec) == hs' = [hs EXCEPT ![h] = rec] /\ call' = call

Done(h, l, reply) == Goto(h, [l EXCEPT !.pc = "done", !.reply = reply])

\* The handler has returned; the task ends.
Return(h) ==
  /\ hs[h].pc = "done"
  /\ Goto(h, Idle)
  /\ UNCHANGED <<db, tx, lock, spent, superseded>>

\* ---------------------------------------------------------------- handle_guess
IsWin(guess, answer) == guess = answer

IsFinished_Never(row) == FALSE

IsFinished(row) == row.finished = 1

\* on_text with an exactly resolved name: handle_guess(user, guess)
OnTextGuess(h, u, g) ==
  /\ hs[h].pc = "idle"
  /\ Goto(h, [Idle EXCEPT !.pc = "hg_active", !.op = "guess", !.user = u, !.guess = g])
  /\ UNCHANGED <<db, tx, lock, spent, superseded>>

\* bot.py:414-417
HG_GetActive(h) ==
  LET l == hs[h]
      sk == get_active_session(View(h), l.user)
  IN /\ l.pc = "hg_active"
     /\ IF sk = NoKey
        THEN Done(h, l, "NoActiveSession")
        ELSE Goto(h, [l EXCEPT !.pc = "hg_session", !.key = sk])
     /\ UNCHANGED <<db, tx, lock, spent, superseded>>

\* bot.py:419-440
HG_GetSession(h) ==
  LET l == hs[h]
      rows == get_session(View(h), l.user, l.key)
  IN /\ l.pc = "hg_session"
     /\ IF rows = {}
        THEN Done(h, l, "SessionBroken")
        ELSE LET row == CHOOSE r \in rows : TRUE
                 l2 == [l EXCEPT !.answer = row.answer_id, !.attempts = row.attempts]
             IN IF IsFinished(row)
                THEN Done(h, l2, "SessionFinished")
                ELSE IF row.answer_id \notin PLAYERS_BY_ID
                THEN Done(h, l2, "AnswerMissing")
                ELSE IF row.attempts >= MAX_ATTEMPTS
                THEN Goto(h, [l2 EXCEPT !.pc = "hg_finish", !.reply = "AttemptsExhausted"])
                ELSE Goto(h, [l2 EXCEPT !.pc = "aa_read"])
     /\ UNCHANGED <<db, tx, lock, spent, superseded>>

\* add_attempt, bot.py:303-308
AA_Read(h) ==
  LET l == hs[h]
      rows == get_session(View(h), l.user, l.key)
  IN /\ l.pc = "aa_read"
     /\ IF rows = {}
        THEN Done(h, l, "Crash") /\ Close(h)
        ELSE /\ NextOrdinal((CHOOSE r \in rows : TRUE).attempts) <= MaxOrdinal
             /\ Goto(h, [l EXCEPT !.pc = "aa_update",
                                  !.n = NextOrdinal((CHOOSE r \in rows : TRUE).attempts)])
             /\ UNCHANGED <<db, tx, lock, spent, superseded>>

\* add_attempt, bot.py:310-313
AA_Update(h) ==
  LET l == hs[h]
  IN /\ l.pc = "aa_update"
     /\ Write(h, UpdateAttempts(tx, l.user, l.key, l.n))
     /\ Goto(h, [l EXCEPT !.pc = "aa_insert"])

\* The verdict of handle_guess on the attempt just stored, bot.py:440-463:
\* computed from the row read at bot.py:419, not from the ordinal stored.
Verdict_OffByOne(guess, answer, attempts) ==
  IF IsWin(guess, answer) THEN "Won"
  ELSE IF attempts + 1 > MAX_ATTEMPTS THEN "Exhausted"
  ELSE "Continue"

Verdict(guess, answer, attempts) ==
  IF IsWin(guess, answer) THEN "Won"
  ELSE IF attempts + 1 >= MAX_ATTEMPTS THEN "Exhausted"
  ELSE "Continue"

\* add_attempt, bot.py:314-317; a primary-key conflict raises IntegrityError,
\* which leaves handle_guess through async with: the transaction is rolled
\* back. Otherwise handle_guess goes on to bot.py:445-463.
AA_Insert(h) ==
  LET l == hs[h]
      v == Verdict(l.guess, l.answer, l.attempts)
  IN /\ l.pc = "aa_insert"
     /\ lock \in {0, h}
     /\ IF AttemptKeyTaken(tx, l.user, l.key, l.n)
        THEN Done(h, l, "Crash") /\ Close(h)
        ELSE /\ Write(h, InsertAttempt(tx, l.user, l.key, l.n, l.guess))
             /\ Goto(h, [l EXCEPT !.pc = IF v = "Continue" THEN "hg_commit" ELSE "hg_finish",
                                  !.reply = v])

\* finish_session as handle_guess calls it, bot.py:435, 446, 455
HG_Finish(h) ==
  LET l == hs[h]
  IN /\ l.pc = "hg_finish"
     /\ Write(h, finish_session(tx, l.user, l.key))
     /\ Goto(h, [l EXCEPT !.pc = "hg_commit"])

\* bot.py:436, 447, 456, 463
HG_Commit(h) ==
  LET l == hs[h]
  IN /\ l.pc = "hg_commit"
     /\ Commit(h)
     /\ UNCHANGED <<spent, superseded>>
     /\ Done(h, l, l.reply)

handle_guess(h) ==
  \/ HG_GetActive(h)
  \/ HG_GetSession(h)
  \/ AA_Read(h)
  \/ AA_Update(h)
  \/ AA_Insert(h)
  \/ HG_Finish(h)
  \/ HG_Commit(h)

\* ---------------------------------------------------------------- createOrReset
\* cmd_play, bot.py:504-505
CmdPlay(h, u, r, a) ==
  /\ hs[h].pc = "idle"
  /\ a \in random_player_from_pool
  /\ Goto(h, [Idle EXCEPT !.pc = "cr_delete", !.op = "play", !.user = u,
                          !.key = RandKey(r), !.answer = a])
  /\ UNCHANGED <<db, tx, lock, spent, superseded>>

\* cmd_daily, bot.py:522-524
CmdDaily(h, u) ==
  /\ hs[h].pc = "idle"
  /\ Goto(h, [Idle EXCEPT !.pc = "cr_delete", !.op = "daily", !.user = u,
                          !.key = DailyKey(TodayOrdinal),
                          !.answer = puzzle_player_of_the_day(TodayOrdinal)])
  /\ UNCHANGED <<db, tx, lock, spent, superseded>>

\* create_or_reset_session, bot.py:284-287
CR_Delete(h) ==
  LET l == hs[h]
  IN /\ l.pc = "cr_delete"
     /\ Write(h, DeleteAttempts(tx, l.user, l.key))
     /\ Goto(h, [l EXCEPT !.pc = "cr_upsert"])

\* create_or_reset_session, bot.py:288-293
CR_Upsert(h) ==
  LET l == hs[h]
  IN /\ l.pc = "cr_upsert"
     /\ Write(h, UpsertSession(tx, l.user, l.key, l.answer))
     /\ Goto(h, [l EXCEPT !.pc = "cr_active"])

\* bot.py:509, 528, 608
CR_SetActive(h) ==
  LET l == hs[h]
  IN /\ l.pc = "cr_active"
     /\ Write(h, set_active_session(tx, l.user, l.key))
     /\ Goto(h, [l EXCEPT !.pc = "cr_clear"])

\* bot.py:510, 529, 609
CR_Clear(h) ==
  LET l == hs[h]
  IN /\ l.pc = "cr_clear"
     /\ Write(h, clear_suggestions(tx, l.user))
     /\ Goto(h, [l EXCEPT !.pc = "cr_commit"])

\* bot.py:511, 530, 610
CR_Commit(h) ==
  LET l == hs[h]
  IN /\ l.pc = "cr_commit"
     /\ Commit(h)
     /\ UNCHANGED <<spent, superseded>>
     /\ Done(h, l, "Started")

create_or_reset(h) ==
  \/ CR_Delete(h)
  \/ CR_Upsert(h)
  \/ CR_SetActive(h)
  \/ CR_Clear(h)
  \/ CR_Commit(h)

\* cmd_join, bot.py:598-605
CmdJoin(h, u, c) ==
  LET ans == get_challenge_answer(View(h), c)
  IN /\ hs[h].pc = "idle"
     /\ IF ans = {}
        THEN Done(h, [Idle EXCEPT !.op = "join", !.user = u, !.code = c], "UnknownCode")
        ELSE Goto(h, [Idle EXCEPT !.pc = "cr_delete", !.op = "join", !.user = u,
                                  !.code = c, !.key = ChalKey(c),
                                  !.answer = CHOOSE a \in ans : TRUE])
     /\ UNCHANGED <<db, tx, lock, spent, superseded>>

\* ---------------------------------------------------------------- cmd_status
\* bot.py:541-545
CmdStatus(h, u) ==
  LET sk == get_active_session(View(h), u)
  IN /\ hs[h].pc = "idle"
     /\ IF sk = NoKey
        THEN Done(h, [Idle EXCEPT !.op = "status", !.user = u], "NoActiveSession")
        ELSE Goto(h, [Idle EXCEPT !.pc = "st_history", !.op = "status", !.user = u,
                                  !.key = sk])
     /\ UNCHANGED <<db, tx, lock, spent, superseded>>

\* bot.py:546-555
ST_History(h) ==
  LET l == hs[h]
  IN /\ l.pc = "st_history"
     /\ Done(h, [l EXCEPT !.hist = {<<r.n, r.guess>> : r \in get_history(View(h), l.user, l.key)}],
             "History")
     /\ UNCHANGED <<db, tx, lock, spent, superseded>>

\* ---------------------------------------------------------------- challenges
\* One pass of the loop of create_challenge, bot.py:337-347, with code the
\* value make_code drew. A conflicting INSERT raises IntegrityError, which
\* the loop swallows; the statement has already taken the write lock. After
\* CODE_TRIES conflicts RuntimeError leaves the handler through async with.
LoopOver_Never(tries) == FALSE

LoopOver(tries) == tries >= CODE_TRIES

CC_Try(h, c) ==
  LET l == hs[h]
  IN /\ l.pc = "cc_try"
     /\ lock \in {0, h}
     /\ IF CodeTaken(tx, c)
        THEN IF LoopOver(l.tries + 1)
             THEN /\ Done(h, [l EXCEPT !.tries = l.tries + 1], "CodeSpaceExhausted")
                  /\ Close(h)
             ELSE /\ Goto(h, [l EXCEPT !.tries = l.tries + 1])
                  /\ Write(h, tx)
        ELSE /\ Write(h, InsertChallenge(tx, c, l.answer, l.user))
             /\ Goto(h, [l EXCEPT !.pc = "cc_commit", !.code = c])

\* bot.py:570, 678
CC_Commit(h) ==
  LET l == hs[h]
  IN /\ l.pc = "cc_commit"
     /\ Commit(h)
     /\ Redeemed(l)
     /\ Done(h, l, "ChallengeCreated")

\* cmd_challenge with a name resolve_guess_to_player resolves, bot.py:566-569
CmdChallenge(h, u, p) ==
  /\ hs[h].pc = "idle"
  /\ Goto(h, [Idle EXCEPT !.pc = "cc_try", !.op = "challenge", !.user = u, !.answer = p])
  /\ UNCHANGED <<db, tx, lock, spent, superseded>>

\* ---------------------------------------------------------------- suggestions
\* on_text / cmd_challenge with a name that only matches as a substring,
\* bot.py:585-587 and 733-735: set_suggestions with the token _token drew.
Offer(h, u, t, purpose, choices) ==
  /\ hs[h].pc = "idle"
  /\ Write(h, set_suggestions(tx, u, t, purpose, choices))
  /\ Goto(h, [Idle EXCEPT !.pc = "of_commit", !.op = "offer", !.user = u,
                          !.purpose = purpose])

OF_Commit(h) ==
  LET l == hs[h]
  IN /\ l.pc = "of_commit"
     /\ Commit(h)
     /\ Redeemed(l)
     /\ Done(h, l, "Offered")

TokenMatches(saved, token) == saved = token

IndexInRange_NoLower(idx, choices) == ~(idx > Len(choices))

IndexInRange(idx, choices) == ~(idx < 1 \/ idx > Len(choices))

\* choices[idx - 1] of a Python list: a negative index counts from the end.
ChoiceAt(choices, idx) ==
  IF idx >= 1 THEN choices[idx] ELSE choices[Len(choices) + idx]

\* on_suggest_click, bot.py:653-667
OnSuggestClick(h, u, t, idx) ==
  LET rows == get_suggestions(View(h), u)
      l == [Idle EXCEPT !.op = "click", !.user = u, !.token = t, !.idx = idx]
  IN /\ hs[h].pc = "idle"
     /\ IF rows = {}
        THEN Done(h, l, "StaleToken")
        ELSE LET row == CHOOSE r \in rows : TRUE
             IN IF ~TokenMatches(row.token, t)
                THEN Done(h, l, "StaleToken")
                ELSE IF ~IndexInRange(idx, row.choices)
                THEN Done(h, l, "IndexOutOfRange")
                ELSE Goto(h, [l EXCEPT !.pc = "sc_clear", !.guess = ChoiceAt(row.choices, idx),
                                       !.purpose = row.purpose])
     /\ UNCHANGED <<db, tx, lock, spent, superseded>>

\* bot.py:668-677, 696
SC_Clear(h) ==
  LET l == hs[h]
  IN /\ l.pc = "sc_clear"
     /\ Write(h, clear_suggestions(tx, l.user))
     /\ IF l.guess \notin PLAYERS_BY_ID
        THEN Goto(h, [l EXCEPT !.pc = "sc_commit", !.reply = "PlayerMissing"])
        ELSE IF l.purpose = "challenge"
        THEN Goto(h, [l EXCEPT !.pc = "cc_try", !.answer = l.guess])
        ELSE Goto(h, [l EXCEPT !.pc = "sc_commit"])

\* bot.py:672 and 696-699
SC_Commit(h) ==
  LET l == hs[h]
  IN /\ l.pc = "sc_commit"
     /\ Commit(h)
     /\ Redeemed(l)
     /\ IF l.reply = "PlayerMissing"
        THEN Done(h, l, "PlayerMissing")
        ELSE Goto(h, [l EXCEPT !.pc = "hg_active"])


\* ---------------------------------------------------------------- strings
\* A Python str is a sequence of one-character strings. Chars lists the
\* characters the model uses in code point order: space, digits, capitals,
\* small letters.
Chars ==
  <<" ", "0", "1", "2", "3", "4", "5", "6", "7", "8", "9",
    "A", "B", "C", "D", "E", "F", "G", "H", "I", "J", "K", "L", "M",
    "N", "O", "P", "Q", "R", "S", "T", "U", "V", "W", "X", "Y", "Z",
    "a", "b", "c", "d", "e", "f", "g", "h", "i", "j", "k", "l", "m",
    "n", "o", "p", "q", "r", "s", "t", "u", "v", "w", "x", "y", "z">>

Ord(c) == CHOOSE i \in 1..Len(Chars) : Chars[i] = c

IsUpper(c) == Ord(c) \in Ord("A")..Ord("Z")

\* str.lower()
lower(s) ==
  [i \in 1..Len(s) |-> IF IsUpper(s[i]) THEN Chars[Ord(s[i]) - Ord("A") + Ord("a")]
                       ELSE s[i]]

RECURSIVE lstrip(_)
lstrip(s) ==
  IF s = <<>> THEN <<>>
  ELSE IF Head(s) = " " THEN lstrip(Tail(s)) ELSE s

RECURSIVE rstrip(_)
rstrip(s) ==
  IF s = <<>> THEN <<>>
  ELSE IF s[Len(s)] = " " THEN rstrip(SubSeq(s, 1, Len(s) - 1)) ELSE s

\* str.strip()
strip(s) == rstrip(lstrip(s))

\* str.split(): the maximal runs of non-space characters.
RECURSIVE split(_)
split(s) ==
  LET t == lstrip(s)
  IN IF t = <<>> THEN <<>>
     ELSE LET ends == {i \in 1..Len(t) : t[i] = " "} \cup {Len(t) + 1}
              k == CHOOSE i \in ends : \A j \in ends : i <= j
          IN <<SubSeq(t, 1, k - 1)>> \o split(SubSeq(t, k, Len(t)))

\* sep.join(words)
RECURSIVE join(_, _)
join(sep, words) ==
  IF words = <<>> THEN <<>>
  ELSE IF Len(words) = 1 THEN words[1]
  ELSE words[1] \o sep \o join(sep, Tail(words))

\* bot.py:47-48
norm_NoLower(s) == join(<<" ">>, split(strip(s)))

norm(s) == join(<<" ">>, split(lower(strip(s))))

\* str.find(sub): the lowest 0-based position of sub, -1 if there is none.
find(s, sub) ==
  LET at == {i \in 0..(Len(s) - Len(sub)) : SubSeq(s, i + 1, i + Len(sub)) = sub}
  IN IF at = {} THEN -1 ELSE CHOOSE i \in at : \A j \in at : i <= j

\* a < b for two str values (code point order, a proper prefix first).
RECURSIVE StrLess(_, _)
StrLess(a, b) ==
  IF b = <<>> THEN FALSE
  ELSE IF a = <<>> THEN TRUE
  ELSE IF Head(a) # Head(b) THEN Ord(Head(a)) < Ord(Head(b))
  ELSE StrLess(Tail(a), Tail(b))


\* ---------------------------------------------------------------- catalog loading and search
\* bot.py:29
SUGGEST_LIMIT == 8

\* bot.py:58-62: the fields of Player the index and the search read.
Player(x) ==
  [id |-> x.id, name |-> x.name,
   aliases |-> [i \in 1..Len(x.aliases) |-> norm(x.aliases[i])],
   fifa_rating |-> x.fifa_rating]

\* d[k] = v of a dict whose keys are str values.
DictPut(d, k, v) == [x \in DOMAIN d \cup {k} |-> IF x = k THEN v ELSE d[x]]

RECURSIVE DictPutAll(_, _, _)
DictPutAll(d, keys, v) ==
  IF keys = <<>> THEN d ELSE DictPutAll(DictPut(d, Head(keys), v), Tail(keys), v)

\* by_id[p.id] = p: a dict keeps the position of the first insertion of a
\* key and the value of the last.
ByIdPut(by_id, p) ==
  IF \E i \in 1..Len(by_id) : by_id[i].id = p.id
  THEN [i \in 1..Len(by_id) |-> IF by_id[i].id = p.id THEN p ELSE by_id[i]]
  ELSE Append(by_id, p)

\* The keys bot.py:72-75 assigns for p, in the order of the assignments.
AliasKeys(p) ==
  <<norm(p.id), norm(p.name)>> \o [i \in 1..Len(p.aliases) |-> norm(p.aliases[i])]

RECURSIVE load_loop(_, _, _)
load_loop(raw, by_id, alias_to_id) ==
  IF raw = <<>> THEN [by_id |-> by_id, alias_to_id |-> alias_to_id]
  ELSE LET p == Player(Head(raw))
       IN load_loop(Tail(raw), ByIdPut(by_id, p),
                    DictPutAll(alias_to_id, AliasKeys(p), p.id))

\* bot.py:50-77
load_players(raw) == load_loop(raw, <<>>, <<>>)

\* bot.py:122-124; the result is the id of the player returned, the empty
\* str for None (an empty id is never returned: "if pid").
resolve_guess_to_player(cat, text) ==
  LET key == norm(text)
  IN IF key \notin DOMAIN cat.alias_to_id THEN <<>>
     ELSE LET pid == cat.alias_to_id[key]
          IN IF pid = <<>> \/ ~\E i \in 1..Len(cat.by_id) : cat.by_id[i].id = pid
             THEN <<>> ELSE pid

\* bot.py:86-90
SEARCH_INDEX(by_id) ==
  [i \in 1..Len(by_id) |->
     [blob |-> norm(by_id[i].name) \o <<" ">> \o
               join(<<" ">>, [j \in 1..Len(by_id[i].aliases) |-> norm(by_id[i].aliases[j])]),
      pid |-> by_id[i].id]]

Rating(by_id, pid) == (CHOOSE p \in {by_id[i] : i \in 1..Len(by_id)} : p.id = pid).fifa_rating

\* The order of the tuples (pos, -fifa_rating, pid) under list.sort().
HitLess(a, b) ==
  \/ a[1] < b[1]
  \/ a[1] = b[1] /\ a[2] < b[2]
  \/ a[1] = b[1] /\ a[2] = b[2] /\ StrLess(a[3], b[3])

\* hits.sort(): the hits are distinct tuples (one per id), which HitLess
\* orders totally.
RECURSIVE sort(_)
sort(hits) ==
  IF hits = {} THEN <<>>
  ELSE LET m == CHOOSE x \in hits : \A y \in hits \ {x} : HitLess(x, y)
       IN <<m>> \o sort(hits \ {m})

\* bot.py:92-103; the result is the list of the ids of the players returned.
find_players_by_substring(by_id, q, limit) ==
  LET qn == norm(q)
      index == SEARCH_INDEX(by_id)
      hits == {<<find(index[i].blob, qn), 0 - Rating(by_id, index[i].pid), index[i].pid>> :
                 i \in {j \in 1..Len(index) : find(index[j].blob, qn) # -1}}
      sorted == sort(hits)
      upto == IF limit < Len(sorted) THEN limit ELSE Len(sorted)
  IN IF Len(qn) < 3 THEN <<>>
     ELSE [i \in 1..upto |-> sorted[i][3]]


\* ---------------------------------------------------------------- feedback
GREEN == "GREEN"
YELLOW == "YELLOW"
GREY == "GREY"

\* bot.py:134-151, as <<country, continent>> pairs
COUNTRY_TO_CONTINENT ==
  {
    <<<<"i", "t", "a", "l", "y">>, "europe">>,
    <<<<"f", "r", "a", "n", "c", "e">>, "europe">>,
    <<<<"s", "p", "a", "i", "n">>, "europe">>,
    <<<<"p", "o", "r", "t", "u", "g", "a", "l">>, "europe">>,
    <<<<"e", "n", "g", "l", "a", "n", "d">>, "europe">>,
    <<<<"u", "k">>, "europe">>,
    <<<<"u", "n", "i", "t", "e", "d", " ", "k", "i", "n", "g", "d", "o", "m">>, "europe">>,
    <<<<"n", "e", "t", "h", "e", "r", "l", "a", "n", "d", "s">>, "europe">>,
    <<<<"g", "e", "r", "m", "a", "n", "y">>, "europe">>,
    <<<<"c", "r", "o", "a", "t", "i", "a">>, "europe">>,
    <<<<"s", "e", "r", "b", "i", "a">>, "europe">>,
    <<<<"b", "e", "l", "g", "i", "u", "m">>, "europe">>,
    <<<<"p", "o", "l", "a", "n", "d">>, "europe">>,
    <<<<"s", "w", "e", "d", "e", "n">>, "europe">>,
    <<<<"n", "o", "r", "w", "a", "y">>, "europe">>,
    <<<<"d", "e", "n", "m", "a", "r", "k">>, "europe">>,
    <<<<"s", "w", "i", "t", "z", "e", "r", "l", "a", "n", "d">>, "europe">>,
    <<<<"a", "u", "s", "t", "r", "i", "a">>, "europe">>,
    <<<<"r", "u", "s", "s", "i", "a">>, "europe">>,
    <<<<"u", "s", "a">>, "north_america">>,
    <<<<"u", "n", "i", "t", "e", "d", " ", "s", "t", "a", "t", "e", "s">>, "north_america">>,
    <<<<"m", "e", "x", "i", "c", "o">>, "north_america">>,
    <<<<"c", "a", "n", "a", "d", "a">>, "north_america">>,
    <<<<"b", "r", "a", "z", "i", "l">>, "south_america">>,
    <<<<"a", "r", "g", "e", "n", "t", "i", "n", "a">>, "south_america">>,
    <<<<"u", "r", "u", "g", "u", "a", "y">>, "south_america">>,
    <<<<"c", "o", "l", "o", "m", "b", "i", "a">>, "south_america">>,
    <<<<"c", "h", "i", "l", "e">>, "south_america">>,
    <<<<"j", "a", "p", "a", "n">>, "asia">>,
    <<<<"s", "o", "u", "t", "h", " ", "k", "o", "r", "e", "a">>, "asia">>,
    <<<<"k", "o", "r", "e", "a">>, "asia">>,
    <<<<"c", "h", "i", "n", "a">>, "asia">>,
    <<<<"i", "r", "a", "n">>, "asia">>,
    <<<<"s", "a", "u", "d", "i", " ", "a", "r", "a", "b", "i", "a">>, "asia">>,
    <<<<"t", "u", "r", "k", "e", "y">>, "asia">>,
    <<<<"n", "i", "g", "e", "r", "i", "a">>, "africa">>,
    <<<<"s", "e", "n", "e", "g", "a", "l">>, "africa">>,
    <<<<"e", "g", "y", "p", "t">>, "africa">>,
    <<<<"m", "o", "r", "o", "c", "c", "o">>, "africa">>,
    <<<<"c", "a", "m", "e", "r", "o", "o", "n">>, "africa">>,
    <<<<"a", "u", "s", "t", "r", "a", "l", "i", "a">>, "oceania">>,
    <<<<"n", "e", "w", " ", "z", "e", "a", "l", "a", "n", "d">>, "oceania">>
  }

\* bot.py:153-154
continent_of(country) ==
  LET hit == {e \in COUNTRY_TO_CONTINENT : e[1] = norm(country)}
  IN IF hit = {} THEN "unknown" ELSE (CHOOSE e \in hit : TRUE)[2]

country_color_AnyEqual(guess_country, answer_country) ==
  IF norm(guess_country) = norm(answer_country) THEN GREEN
  ELSE IF continent_of(guess_country) = continent_of(answer_country) THEN YELLOW
  ELSE GREY

\* bot.py:156-163
country_color(guess_country, answer_country) ==
  IF norm(guess_country) = norm(answer_country) THEN GREEN
  ELSE LET g == continent_of(guess_country)
           a == continent_of(answer_country)
       IN IF g # "unknown" /\ g = a THEN YELLOW ELSE GREY

arrow_need_Swapped(guess_val, answer_val) ==
  IF guess_val = answer_val THEN "ok"
  ELSE IF answer_val > guess_val THEN "down" ELSE "up"

\* bot.py:165-168: "ok" is the check mark, "up" the arrow that asks for a
\* larger value, "down" the one that asks for a smaller.
arrow_need(guess_val, answer_val) ==
  IF guess_val = answer_val THEN "ok"
  ELSE IF answer_val > guess_val THEN "up" ELSE "down"

abs(x) == IF x < 0 THEN 0 - x ELSE x

color_numeric_Strict(guess_val, answer_val, near_delta) ==
  IF guess_val = answer_val THEN GREEN
  ELSE IF abs(guess_val - answer_val) < near_delta THEN YELLOW
  ELSE GREY

\* bot.py:170-175
color_numeric(guess_val, answer_val, near_delta) ==
  IF guess_val = answer_val THEN GREEN
  ELSE IF abs(guess_val - answer_val) <= near_delta THEN YELLOW
  ELSE GREY

\* bot.py:177-178
color_bool(ok) == IF ok THEN GREEN ELSE GREY

\* bot.py:189, 198, 202
DEBUT_NEAR == 2
FIFA_NEAR == 20
VALUE_NEAR == 5000000

\* bot.py:187-220: the tiles and arrows of the message, before formatting.
build_feedback_spotle_multiline(guess, answer) ==
  [debut_color |-> color_numeric(guess.debut_year, answer.debut_year, DEBUT_NEAR),
   debut_arrow |-> arrow_need(guess.debut_year, answer.debut_year),
   club_color |-> color_bool(norm(guess.iconic_club) = norm(answer.iconic_club)),
   fifa_color |-> color_numeric(guess.fifa_rating, answer.fifa_rating, FIFA_NEAR),
   fifa_arrow |-> LET fifa_arrow == arrow_need(guess.fifa_rating, answer.fifa_rating)
                  IN IF fifa_arrow # "ok" THEN fifa_arrow ELSE "ok",
   value_color |-> color_numeric(guess.value_eur, answer.value_eur, VALUE_NEAR),
   value_arrow |-> arrow_need(guess.value_eur, answer.value_eur),
   pos_color |-> color_bool(guess.position_group = answer.position_group),
   ctry_color |-> country_color(guess.birth_country, answer.birth_country)]

\* ---------------------------------------------------------------- specifications
Purposes == {"guess", "challenge"}

\* Updates handled one after the other (a single dispatcher slot): one
\* player, the daily and the random game.
NextSeq ==
  \/ \E g \in PLAYERS_BY_ID : OnTextGuess(1, 1, g)
  \/ CmdDaily(1, 1)
  \/ \E r \in Rounds, a \in PLAYERS_BY_ID : CmdPlay(1, 1, r, a)
  \/ CmdStatus(1, 1)
  \/ handle_guess(1)
  \/ create_or_reset(1)
  \/ ST_History(1)
  \/ Return(1)

SpecSeq == Init /\ [][NextSeq]_vars

\* The challenge registry: the two players create codes concurrently
\* (player h in dispatcher slot h).
ChallengeStep(h) ==
  \/ \E p \in PLAYERS_BY_ID : CmdChallenge(h, h, p)
  \/ \E c \in Codes : CC_Try(h, c)
  \/ CC_Commit(h)
  \/ Return(h)

NextChallenge == \E h \in Handlers : ChallengeStep(h)

SpecChallenge == Init /\ [][NextChallenge]_vars

\* Joiners of one challenge: each player's updates are handled one after
\* the other (player h in dispatcher slot h), the players concurrently. They
\* create the challenge, join it, guess and ask for suggestions (when
\* none is pending).
JoinStep(h) ==
  \/ CmdChallenge(h, h, "p1")
  \/ CmdJoin(h, h, 1)
  \/ \E g \in PLAYERS_BY_ID : OnTextGuess(h, h, g)
  \/ /\ get_suggestions(db, h) = {}
     /\ Offer(h, h, 1, "guess", <<"p1">>)
  \/ CC_Try(h, 1)
  \/ CC_Commit(h)
  \/ OF_Commit(h)
  \/ handle_guess(h)
  \/ create_or_reset(h)
  \/ Return(h)

NextJoin == \E h \in Handlers : JoinStep(h)

SpecJoin == Init /\ [][NextJoin]_vars

\* Suggestions, updates handled one after the other: one player in the
\* daily game, offers and selections for both purposes.
NextSuggest ==
  \/ CmdDaily(1, 1)
  \/ \E t \in Tokens, p \in Purposes, cs \in ChoiceLists : Offer(1, 1, t, p, cs)
  \/ \E t \in Tokens, i \in 0..3 : OnSuggestClick(1, 1, t, i)
  \/ OF_Commit(1)
  \/ SC_Clear(1)
  \/ SC_Commit(1)
  \/ \E c \in Codes : CC_Try(1, c)
  \/ CC_Commit(1)
  \/ handle_guess(1)
  \/ create_or_reset(1)
  \/ Return(1)

SpecSuggest == Init /\ [][NextSuggest]_vars

\* One player, the daily game, updates handled concurrently.
SessionStep(h) ==
  \/ OnTextGuess(h, 1, "p1")
  \/ OnTextGuess(h, 1, "p2")
  \/ CmdDaily(h, 1)
  \/ CmdStatus(h, 1)
  \/ handle_guess(h)
  \/ create_or_reset(h)
  \/ ST_History(h)
  \/ Return(h)

Next == \E h \in Handlers : SessionStep(h)

Spec == Init /\ [][Next]_vars

\* One daily game that is started once and never restarted, guesses handled
\* concurrently.
RaceStep(h) ==
  \/ /\ db.user_sessions = {}
     /\ \A h2 \in Handlers : hs[h2].op # "daily"
     /\ CmdDaily(h, 1)
  \/ \E g \in PLAYERS_BY_ID : OnTextGuess(h, 1, g)
  \/ handle_guess(h)
  \/ create_or_reset(h)
  \/ Return(h)

NextRace == \E h \in Handlers : RaceStep(h)

SpecRace == Init /\ [][NextRace]_vars

\* One daily game started once and one offer made once for player 1; the
\* selections of its buttons are handled concurrently.
ClickStep(h) ==
  \/ /\ db.user_sessions = {}
     /\ \A h2 \in Handlers : hs[h2].op # "daily"
     /\ CmdDaily(h, 1)
  \/ /\ db.user_suggestions = {} /\ spent = {}
     /\ \A h2 \in Handlers : hs[h2].op \notin {"offer", "click"}
     /\ \E p \in Purposes : Offer(h, 1, 1, p, <<"p2", "p1">>)
  \/ \E i \in 1..2 : OnSuggestClick(h, 1, 1, i)
  \/ OF_Commit(h)
  \/ SC_Clear(h)
  \/ SC_Commit(h)
  \/ \E c \in Codes : CC_Try(h, c)
  \/ CC_Commit(h)
  \/ handle_guess(h)
  \/ create_or_reset(h)
  \/ Return(h)

NextClick == \E h \in Handlers : ClickStep(h)

SpecClick == Init /\ [][NextClick]_vars

\* One player switching between the daily game, the random game and
\* challenges (code 1 is the only one ever created) while guessing; the
\* updates are handled concurrently, one guess at a time.
PointerStep(h) ==
  \/ CmdDaily(h, 1)
  \/ \E r \in Rounds : CmdPlay(h, 1, r, "p1")
  \/ \E c \in Codes : CmdJoin(h, 1, c)
  \/ /\ db.challenges = {}
     /\ \A h2 \in Handlers : hs[h2].op # "challenge"
     /\ CmdChallenge(h, 1, "p1")
  \/ CC_Try(h, 1)
  \/ CC_Commit(h)
  \/ h = 1 /\ OnTextGuess(h, 1, "p1")
  \/ handle_guess(h)
  \/ create_or_reset(h)
  \/ Return(h)

NextPointer == \E h \in Handlers : PointerStep(h)

SpecPointer == Init /\ [][NextPointer]_vars

\* ---------------------------------------------------------------- catalog calls
\* Entries of players.json the catalog inputs are made of.
RawPlayers ==
  { [id |-> <<"b", "7">>, name |-> <<"R", "o", "n", "a", "l", "d", "o">>, aliases |-> <<<<"R", "9">>>>, fifa_rating |-> 90],
    [id |-> <<"a", "9">>, name |-> <<"r", "o", "n", "a", "l", "d", "i", "n", "h", "o">>, aliases |-> <<>>, fifa_rating |-> 90],
    [id |-> <<"c", "7">>, name |-> <<"C", "r", "i", "s", "t", "i", "a", "n", "o", " ", " ", "R", "o", "n", "a", "l", "d", "o">>, aliases |-> <<<<"C", "R", "7">>>>, fifa_rating |-> 91],
    [id |-> <<"d", "1">>, name |-> <<"A", "a", "r", "o", "n">>, aliases |-> <<<<" ", "R", "O", "N", " ">>>>, fifa_rating |-> 90],
    [id |-> <<"r", "9">>, name |-> <<"R", "o", "n", "a", "l", "d", "o", " ", "N", "a", "z", "a", "r", "i", "o">>, aliases |-> <<<<"r", "o", "n", "a", "l", "d", "o">>>>, fifa_rating |-> 94] }

MaxCatalog == 3

\* players.json: lists of distinct entries, at most MaxCatalog long.
RawCatalogs ==
  UNION { {c \in [1..n -> RawPlayers] : \A i, j \in 1..n : c[i] = c[j] => i = j} :
            n \in 0..MaxCatalog }

Queries == { <<"r", "o", "n">>, <<" ", "R", "O", "N">>, <<"r", "o">>, <<"n", "a", "l", "d", "o">>, <<"o", " ", " ", "r">>, <<"x", "y", "z">> }

Limits == {1, 2, SUGGEST_LIMIT}

MaxRotation == 3
MaxDay == 6

\* puzzles.json "order": lists of ids, "zz" an id the catalog does not have.
Rotations == UNION { [1..n -> PLAYERS_BY_ID \cup {"zz"}] : n \in 0..MaxRotation }

\* dt.date.toordinal() is positive.
Days == 1..MaxDay

SuggestCalls ==
  { [fn |-> "suggest", stage |-> "in", raw |-> c, q |-> q, limit |-> l, out |-> <<>>] :
      c \in RawCatalogs, q \in Queries, l \in Limits }

LoadCalls ==
  { [fn |-> "load", stage |-> "in", raw |-> c, out |-> <<>>, raised |-> FALSE] :
      c \in RawCatalogs }

DayCalls ==
  { [fn |-> "day", stage |-> "in", order |-> o, d1 |-> d1, d2 |-> d2,
     out1 |-> "none", out2 |-> "none"] : o \in Rotations, d1 \in Days, d2 \in Days }

Quiet == UNCHANGED <<db, tx, lock, hs, spent, superseded>>

InitCatalog ==
  /\ db = EmptyDb
  /\ tx = EmptyDb
  /\ lock = 0
  /\ hs = [h \in Handlers |-> Idle]
  /\ spent = {}
  /\ superseded = {}
  /\ call \in SuggestCalls \cup LoadCalls \cup DayCalls

\* find_players_by_substring(q, limit) on the catalog loaded from raw
CallSuggest ==
  /\ call.fn = "suggest" /\ call.stage = "in"
  /\ call' = [call EXCEPT !.stage = "out",
                !.out = find_players_by_substring(load_players(call.raw).by_id,
                                                  call.q, call.limit)]
  /\ Quiet

\* PLAYERS_BY_ID, ALIAS_TO_ID = load_players(); load_players has no raise
\* statement and its dict assignments cannot fail, so raised stays FALSE.
CallLoad ==
  /\ call.fn = "load" /\ call.stage = "in"
  /\ call' = [call EXCEPT !.stage = "out", !.out = load_players(call.raw)]
  /\ Quiet

\* puzzle_player_of_the_day on two dates
CallDay ==
  /\ call.fn = "day" /\ call.stage = "in"
  /\ call' = [call EXCEPT !.stage = "out",
                !.out1 = puzzle_player_of_the_day_in(call.order, PLAYERS_BY_ID, call.d1),
                !.out2 = puzzle_player_of_the_day_in(call.order, PLAYERS_BY_ID, call.d2)]
  /\ Quiet

NextCatalog == CallSuggest \/ CallLoad \/ CallDay

SpecCatalog == InitCatalog /\ [][NextCatalog]_vars


\* ---------------------------------------------------------------- feedback calls
MaxValue == 6
MaxDelta == 3

\* Arguments of color_numeric and arrow_need.
Values == 0..MaxValue
Deltas == 0..MaxDelta

\* birth_country values: mapped countries in several spellings, and two
\* countries COUNTRY_TO_CONTINENT does not have.
Countries ==
  { <<"I", "t", "a", "l", "y">>, <<" ", "F", "R", "A", "N", "C", "E">>, <<"i", "t", "a", "l", "y", " ">>, <<"B", "r", "a", "z", "i", "l">>, <<"A", "r", "g", "e", "n", "t", "i", "n", "a">>,
    <<"S", "o", "u", "t", "h", " ", " ", "K", "o", "r", "e", "a">>, <<"W", "a", "k", "a", "n", "d", "a">>, <<"N", "a", "r", "n", "i", "a">>, <<>> }

\* Players a guess and a target are drawn from.
FeedbackPlayers ==
  { [debut_year |-> 2004, iconic_club |-> <<"B", "a", "r", "c", "e", "l", "o", "n", "a">>, fifa_rating |-> 94,
     value_eur |-> 50000000, position_group |-> "FWD", birth_country |-> <<"A", "r", "g", "e", "n", "t", "i", "n", "a">>],
    [debut_year |-> 2002, iconic_club |-> <<"b", "a", "r", "c", "e", "l", "o", "n", "a", " ">>, fifa_rating |-> 74,
     value_eur |-> 45000000, position_group |-> "FWD", birth_country |-> <<"B", "r", "a", "z", "i", "l">>],
    [debut_year |-> 2001, iconic_club |-> <<"R", "e", "a", "l", " ", "M", "a", "d", "r", "i", "d">>, fifa_rating |-> 73,
     value_eur |-> 44999999, position_group |-> "MID", birth_country |-> <<" ", "a", "r", "g", "e", "n", "t", "i", "n", "a">>],
    [debut_year |-> 2007, iconic_club |-> <<"J", "u", "v", "e", "n", "t", "u", "s">>, fifa_rating |-> 99,
     value_eur |-> 55000001, position_group |-> "GK", birth_country |-> <<"W", "a", "k", "a", "n", "d", "a">>],
    [debut_year |-> 2006, iconic_club |-> <<"J", "u", "v", "e", "n", "t", "u", "s">>, fifa_rating |-> 94,
     value_eur |-> 0, position_group |-> "DEF", birth_country |-> <<"N", "a", "r", "n", "i", "a">>],
    [debut_year |-> 2004, iconic_club |-> <<"M", "i", "l", "a", "n">>, fifa_rating |-> 79,
     value_eur |-> 50000000, position_group |-> "DEF", birth_country |-> <<"I", "t", "a", "l", "y">>] }

NumericCalls ==
  { [fn |-> "numeric", stage |-> "in", guess |-> g, answer |-> a, near_delta |-> dl,
     color |-> "none", arrow |-> "none"] : g \in Values, a \in Values, dl \in Deltas }

CountryCalls ==
  { [fn |-> "country", stage |-> "in", guess |-> g, answer |-> a, color |-> "none"] :
      g \in Countries, a \in Countries }

FeedbackCalls ==
  { [fn |-> "feedback", stage |-> "in", guess |-> g, answer |-> a, out |-> <<>>] :
      g \in FeedbackPlayers, a \in FeedbackPlayers }

InitFeedback ==
  /\ db = EmptyDb
  /\ tx = EmptyDb
  /\ lock = 0
  /\ hs = [h \in Handlers |-> Idle]
  /\ spent = {}
  /\ superseded = {}
  /\ \/ call \in NumericCalls
     \/ call \in CountryCalls
     \/ call \in FeedbackCalls

\* color_numeric and arrow_need on the same pair of values
CallNumeric ==
  /\ call.fn = "numeric" /\ call.stage = "in"
  /\ call' = [call EXCEPT !.stage = "out",
                !.color = color_numeric(call.guess, call.answer, call.near_delta),
                !.arrow = arrow_need(call.guess, call.answer)]
  /\ Quiet

CallCountry ==
  /\ call.fn = "country" /\ call.stage = "in"
  /\ call' = [call EXCEPT !.stage = "out",
                !.color = country_color(call.guess, call.answer)]
  /\ Quiet

CallFeedback ==
  /\ call.fn = "feedback" /\ call.stage = "in"
  /\ call' = [call EXCEPT !.stage = "out",
                !.out = build_feedback_spotle_multiline(call.guess, call.answer)]
  /\ Quiet

NextFeedback == CallNumeric \/ CallCountry \/ CallFeedback

SpecFeedback == InitFeedback /\ [][NextFeedback]_vars

\* ---------------------------------------------------------------- claims
Recorded == {"Won", "Exhausted", "Continue"}

Ordinals(d, u, k) == {a.n : a \in get_history(d, u, k)}

\* C1: with updates handled one after the other, the stored ordinals of
\* every session are exactly 1..attemptsUsed, attemptsUsed never exceeds
\* MAX_ATTEMPTS, and a guess that was recorded got the ordinal one above the
\* count it found and is stored under it.
C1_SequentialOrdinals ==
  /\ \A r \in db.user_sessions :
       /\ Ordinals(db, r.user_id, r.session_key) = 1..r.attempts
       /\ Cardinality(get_history(db, r.user_id, r.session_key)) = r.attempts
       /\ r.attempts <= MAX_ATTEMPTS
  /\ \A h \in Handlers :
       (hs[h].pc = "done" /\ hs[h].reply \in Recorded) =>
         /\ hs[h].n = hs[h].attempts + 1
         /\ \E r \in get_session(db, hs[h].user, hs[h].key) : r.attempts = hs[h].n
         /\ \E a \in get_history(db, hs[h].user, hs[h].key) :
              a.n = hs[h].n /\ a.guess = hs[h].guess

C1_Witness ==
  \E r \in db.user_sessions :
    /\ r.attempts = MAX_ATTEMPTS
    /\ Ordinals(db, r.user_id, r.session_key) = 1..MAX_ATTEMPTS
    /\ hs[1].pc = "done" /\ hs[1].reply = "Exhausted" /\ hs[1].n = MAX_ATTEMPTS

\* C2: two guesses of one player that both found the session with
\* attemptsUsed = N < MAX_ATTEMPTS - 1 are both recorded: neither ends in the
\* failure of add_attempt that loses the guess.
C2_ConcurrentGuessesRecorded ==
  \A h1, h2 \in Handlers :
    ( /\ h1 # h2
      /\ hs[h1].pc = "done" /\ hs[h2].pc = "done"
      /\ hs[h1].op = "guess" /\ hs[h2].op = "guess"
      /\ hs[h1].user = hs[h2].user /\ hs[h1].key = hs[h2].key
      /\ hs[h1].key # NoKey
      /\ hs[h1].attempts = hs[h2].attempts
      /\ hs[h1].attempts < MAX_ATTEMPTS - 1
      /\ hs[h1].reply \in Recorded )
    => /\ hs[h2].reply \in Recorded
       /\ {hs[h1].n, hs[h2].n} = {hs[h1].attempts + 1, hs[h1].attempts + 2}

\* C3: a guess that reads a finished session ends with SessionFinished and
\* writes nothing: the committed store, the open transaction and the lock
\* are as before.
C3_TerminalRejection ==
  [][\A h \in Handlers :
       ( /\ hs[h].pc = "hg_session"
         /\ hs'[h] # hs[h]
         /\ \E r \in get_session(db, hs[h].user, hs[h].key) : r.finished = 1 )
       => /\ hs'[h].pc = "done"
          /\ hs'[h].reply = "SessionFinished"
          /\ lock # h
          /\ UNCHANGED <<db, tx, lock>>]_vars

C3_Witness ==
  \E h \in Handlers :
    /\ hs[h].pc = "done" /\ hs[h].reply = "SessionFinished"
    /\ \E r \in get_session(db, hs[h].user, hs[h].key) :
         r.finished = 1 /\ Ordinals(db, hs[h].user, hs[h].key) # {}

C5_ResetResult ==
  [][\A h \in Handlers :
       (hs[h].pc = "cr_commit" /\ hs'[h].pc = "done") =>
         /\ get_session(db', hs[h].user, hs[h].key)
              = {[user_id |-> hs[h].user, session_key |-> hs[h].key,
                  answer_id |-> hs[h].answer, attempts |-> 0, finished |-> 0]}
         /\ get_history(db', hs[h].user, hs[h].key) = {}]_vars

\* A reset committed after the other handler's win on the same key.
C5_Witness ==
  \E h1, h2 \in Handlers :
    /\ hs[h1].pc = "done" /\ hs[h1].reply = "Started"
    /\ hs[h2].pc = "done" /\ hs[h2].reply = "Won" /\ hs[h2].key = hs[h1].key
    /\ \E r \in get_session(db, hs[h1].user, hs[h1].key) :
         r.attempts = 0 /\ r.finished = 0
    /\ get_history(db, hs[h1].user, hs[h1].key) = {}

Fresh(d, u, k) ==
  \A r \in get_session(d, u, k) : r.attempts = 0 /\ r.finished = 0

\* C6: in the committed store, which is what every other handler reads, the
\* history of a key is emptied only in the step that makes its session row
\* fresh, and a session row is replaced by a fresh one only in a step that
\* leaves the history empty.
C6_ResetAtomic ==
  [][\A r \in db.user_sessions :
       LET u == r.user_id
           k == r.session_key
       IN /\ (get_history(db, u, k) # {} /\ get_history(db', u, k) = {})
               => Fresh(db', u, k)
          /\ (~Fresh(db, u, k) /\ Fresh(db', u, k))
               => get_history(db', u, k) = {}]_vars

\* A reset has deleted the history in its transaction while another handler
\* is about to read the same session.
C6_Witness ==
  \E h1, h2 \in Handlers :
    /\ lock = h1 /\ hs[h1].pc \in {"cr_upsert", "cr_active", "cr_clear", "cr_commit"}
    /\ get_history(db, hs[h1].user, hs[h1].key) # {}
    /\ get_history(tx, hs[h1].user, hs[h1].key) = {}
    /\ hs[h2].pc \in {"st_history", "hg_session"}
    /\ hs[h2].user = hs[h1].user /\ hs[h2].key = hs[h1].key

\* C7: the codes returned by create_challenge are distinct, and each
\* resolves to the target of the call that returned it.
C7_DistinctCodes ==
  /\ \A h \in Handlers :
       (hs[h].pc = "done" /\ hs[h].reply = "ChallengeCreated") =>
         get_challenge_answer(db, hs[h].code) = {hs[h].answer}
  /\ \A h1, h2 \in Handlers :
       ( /\ h1 # h2
         /\ hs[h1].pc = "done" /\ hs[h1].reply = "ChallengeCreated"
         /\ hs[h2].pc = "done" /\ hs[h2].reply = "ChallengeCreated" )
       => hs[h1].code # hs[h2].code

C7_Witness ==
  /\ hs[1].pc = "done" /\ hs[1].reply = "ChallengeCreated"
  /\ hs[2].pc = "done" /\ hs[2].reply = "ChallengeCreated"
  /\ hs[1].answer # hs[2].answer
  /\ hs[2].tries >= 1

\* C8: every pass of the loop of create_challenge either counts one more
\* conflict, staying below CODE_TRIES and adding no row, or inserts a code
\* that was not registered, or is the CODE_TRIES-th conflict and fails with
\* CodeSpaceExhausted, the store left as committed before.
C8_BoundedRetry ==
  [][\A h \in Handlers :
       (hs[h].pc = "cc_try" /\ hs'[h] # hs[h]) =>
         \/ /\ hs'[h].pc = "cc_try"
            /\ hs'[h].tries = hs[h].tries + 1
            /\ hs'[h].tries < CODE_TRIES
            /\ tx'.challenges = tx.challenges /\ db' = db
         \/ /\ hs'[h].pc = "cc_commit"
            /\ ~CodeTaken(tx, hs'[h].code)
            /\ tx'.challenges = tx.challenges \cup
                 {[code |-> hs'[h].code, answer_id |-> hs[h].answer,
                   creator_user_id |-> hs[h].user]}
            /\ db' = db
         \/ /\ hs'[h].pc = "done"
            /\ hs'[h].reply = "CodeSpaceExhausted"
            /\ hs'[h].tries = CODE_TRIES
            /\ db' = db /\ tx' = db /\ lock' = 0]_vars

C8_Witness ==
  \E h \in Handlers :
    /\ hs[h].pc = "done" /\ hs[h].reply = "CodeSpaceExhausted"
    /\ hs[h].tries = CODE_TRIES
    /\ \A c \in Codes : CodeTaken(db, c)

RowsOf(d, u) ==
  [s |-> {r \in d.user_sessions : r.user_id = u},
   a |-> {r \in d.user_attempts : r.user_id = u},
   p |-> {r \in d.user_active : r.user_id = u},
   g |-> {r \in d.user_suggestions : r.user_id = u}]

\* C9: every challenge row stays as it is, a code has one row, and a step
\* of a handler working for one player leaves the committed sessions,
\* attempts, pointer and suggestion entry of every other player unchanged.
C9_ChallengeFrame ==
  [][/\ \A r \in db.challenges : r \in db'.challenges
     /\ \A r1, r2 \in db'.challenges : r1.code = r2.code => r1 = r2
     /\ \A h \in Handlers :
          hs'[h] # hs[h] =>
            \A u \in Users :
              (u # hs[h].user /\ hs[h].user # 0) => RowsOf(db', u) = RowsOf(db, u)]_vars

\* Both players have joined the same code; one has finished, the other is
\* still playing with one attempt.
C9_Witness ==
  \E r1, r2 \in db.user_sessions :
    /\ r1.user_id = 1 /\ r2.user_id = 2
    /\ r1.session_key = ChalKey(1) /\ r2.session_key = ChalKey(1)
    /\ r1.finished = 1 /\ r2.finished = 0 /\ r2.attempts = 1
    /\ get_suggestions(db, 2) # {}

\* C10: a token redeemed since the player's last offer has no entry in the
\* committed store, and a selection that presents it ends with StaleToken at
\* once: no guess, no challenge, nothing written.
C10_SingleUse ==
  /\ [](\A p \in spent : \A r \in get_suggestions(db, p[1]) : r.token # p[2])
  /\ [][\A h \in Handlers :
          ( /\ hs[h].pc = "idle"
            /\ hs'[h].op = "click"
            /\ <<hs'[h].user, hs'[h].token>> \in spent )
          => /\ hs'[h].pc = "done"
             /\ hs'[h].reply = "StaleToken"
             /\ UNCHANGED <<db, tx, lock>>]_vars

C10_Witness ==
  \E h \in Handlers :
    /\ hs[h].pc = "done" /\ hs[h].op = "click" /\ hs[h].reply = "StaleToken"
    /\ <<hs[h].user, hs[h].token>> \in spent

\* C11: a player has at most one suggestion entry, and once a later offer
\* of the player has replaced an entry, a selection that presents the
\* replaced entry's token ends with StaleToken at once and is not served
\* from the newer list.
C11_LastWriteWins ==
  /\ [](\A u \in Users : Cardinality(get_suggestions(db, u)) <= 1)
  /\ [][\A h \in Handlers :
          ( /\ hs[h].pc = "idle"
            /\ hs'[h].op = "click"
            /\ <<hs'[h].user, hs'[h].token>> \in superseded )
          => /\ hs'[h].pc = "done"
             /\ hs'[h].reply = "StaleToken"]_vars

\* C12: a selection whose token is the stored one and whose index is
\* outside 1..Len(choices) ends with IndexOutOfRange; a selection that ends
\* with StaleToken or IndexOutOfRange leaves the committed store, the open
\* transaction and the lock as they were; and a selection with the stored
\* token and an index inside the range goes on to redeem that candidate
\* under the entry's purpose, whatever selections failed before it.
C12_FailedRedeem ==
  [][\A h \in Handlers :
       (hs[h].pc = "idle" /\ hs'[h].op = "click") =>
         LET l == hs'[h]
             rows == get_suggestions(db, l.user)
         IN /\ \A r \in rows :
                 (r.token = l.token /\ l.idx \notin 1..Len(r.choices)) =>
                   l.pc = "done" /\ l.reply = "IndexOutOfRange"
            /\ (l.pc = "done" /\ l.reply \in {"StaleToken", "IndexOutOfRange"}) =>
                 UNCHANGED <<db, tx, lock>>
            /\ \A r \in rows :
                 (r.token = l.token /\ l.idx \in 1..Len(r.choices)) =>
                   /\ l.pc = "sc_clear"
                   /\ l.guess = r.choices[l.idx]
                   /\ l.purpose = r.purpose]_vars

\* An index one past the list was refused and the entry is still stored
\* under the token that was presented.
C12_Witness ==
  \E h \in Handlers :
    /\ hs[h].pc = "done" /\ hs[h].op = "click" /\ hs[h].reply = "IndexOutOfRange"
    /\ \E r \in get_suggestions(db, hs[h].user) :
         r.token = hs[h].token /\ hs[h].idx = Len(r.choices) + 1

\* C13: a guess of a player who has no active pointer ends with
\* NoActiveSession and changes nothing: the committed store (no session row,
\* no attempt, no pointer), the open transaction and the lock stay as they
\* were.
C13_NoActiveSession ==
  [][\A h \in Handlers :
       ( /\ hs[h].pc = "hg_active"
         /\ hs'[h] # hs[h]
         /\ \A r \in db.user_active : r.user_id # hs[h].user )
       => /\ hs'[h].pc = "done"
          /\ hs'[h].reply = "NoActiveSession"
          /\ UNCHANGED <<db, tx, lock>>
          /\ \A r \in db'.user_active : r.user_id # hs[h].user]_vars

\* The guess was refused while the other handler was in the middle of
\* starting the player's first game.
C13_Witness ==
  \E h1, h2 \in Handlers :
    /\ hs[h1].pc = "done" /\ hs[h1].op = "guess" /\ hs[h1].reply = "NoActiveSession"
    /\ hs[h2].pc = "cr_commit" /\ hs[h2].user = hs[h1].user
    /\ db.user_active = {} /\ db.user_sessions = {} /\ db.user_attempts = {}

\* C14: find_players_by_substring returns nothing for a query of fewer
\* than 3 normalized characters; otherwise it returns the players whose blob
\* contains the normalized query, by ascending position of the first match,
\* then by descending rating, players equal on both in the iteration order
\* of the catalog, cut to the first limit of them.
C14_SuggestRanking ==
  (call.fn = "suggest" /\ call.stage = "out") =>
    LET by_id == load_players(call.raw).by_id
        qn == norm(call.q)
        index == SEARCH_INDEX(by_id)
        pos(i) == find(index[i].blob, qn)
        matches == {i \in 1..Len(index) : pos(i) # -1}
        Before(i, j) ==
          \/ pos(i) < pos(j)
          \/ pos(i) = pos(j) /\ by_id[i].fifa_rating > by_id[j].fifa_rating
          \/ pos(i) = pos(j) /\ by_id[i].fifa_rating = by_id[j].fifa_rating /\ i < j
        rank(i) == Cardinality({j \in matches : Before(j, i)}) + 1
    IN IF Len(qn) < 3 THEN call.out = <<>>
       ELSE /\ Len(call.out) = IF call.limit < Cardinality(matches)
                               THEN call.limit ELSE Cardinality(matches)
            /\ \A i \in matches :
                 rank(i) <= Len(call.out) => call.out[rank(i)] = by_id[i].id

KeySet(x) == {AliasKeys(Player(x))[i] : i \in 1..Len(AliasKeys(Player(x)))}

\* C15: loading a catalog in which a later entry has a key (normalized id,
\* name or alias) that an earlier entry registered fails; after a load that
\* did not fail, every key of every entry resolves to that entry.
C15_AliasIndex ==
  (call.fn = "load" /\ call.stage = "out") =>
    LET raw == call.raw
    IN /\ (\E i, j \in 1..Len(raw) : i < j /\ KeySet(raw[i]) \cap KeySet(raw[j]) # {})
            => call.raised
       /\ ~call.raised =>
            \A i \in 1..Len(raw) : \A key \in KeySet(raw[i]) :
              resolve_guess_to_player(call.out, key) = raw[i].id

C17_NumericTiers ==
  /\ (call.fn = "numeric" /\ call.stage = "out") =>
       LET dist == IF call.guess < call.answer THEN call.answer - call.guess
                   ELSE call.guess - call.answer
       IN /\ call.color = GREEN <=> dist = 0
          /\ call.color = YELLOW <=> (0 < dist /\ dist <= call.near_delta)
          /\ call.color = GREY <=> dist > call.near_delta
  /\ (call.fn = "feedback" /\ call.stage = "out") =>
       LET g == call.guess.debut_year
           a == call.answer.debut_year
       IN /\ (g = a + 2 \/ a = g + 2) => call.out.debut_color = YELLOW
          /\ (g = a + 3 \/ a = g + 3) => call.out.debut_color = GREY
          /\ g = a <=> call.out.debut_color = GREEN

\* A debut year 2 below the target's got YELLOW.
C17_Witness ==
  /\ call.fn = "feedback" /\ call.stage = "out"
  /\ call.answer.debut_year = call.guess.debut_year + 2
  /\ call.out.debut_color = YELLOW

\* C18: the arrow depends on the order of guess and target only: the check
\* mark exactly when they are equal, "up" exactly when the target is
\* larger, "down" exactly when it is smaller, whatever the colour; the
\* arrows of the message follow the same rule.
C18_Arrow ==
  /\ (call.fn = "numeric" /\ call.stage = "out") =>
       /\ call.arrow = "ok" <=> call.guess = call.answer
       /\ call.arrow = "up" <=> call.answer > call.guess
       /\ call.arrow = "down" <=> call.answer < call.guess
  /\ (call.fn = "feedback" /\ call.stage = "out") =>
       LET Arrow(g, a) == IF g = a THEN "ok" ELSE IF a > g THEN "up" ELSE "down"
       IN /\ call.out.debut_arrow = Arrow(call.guess.debut_year, call.answer.debut_year)
          /\ call.out.fifa_arrow = Arrow(call.guess.fifa_rating, call.answer.fifa_rating)
          /\ call.out.value_arrow = Arrow(call.guess.value_eur, call.answer.value_eur)

\* A GREY value with the arrow "up" next to a YELLOW rating with the arrow
\* "down" in one message.
C18_Witness ==
  /\ call.fn = "feedback" /\ call.stage = "out"
  /\ call.out.value_color = GREY /\ call.out.value_arrow = "up"
  /\ call.out.fifa_color = YELLOW /\ call.out.fifa_arrow = "down"

Mapped(country) == \E e \in COUNTRY_TO_CONTINENT : e[1] = norm(country)

\* C19: when the normalized country names differ and one of the two
\* countries (or both) is not in COUNTRY_TO_CONTINENT the tile is GREY;
\* the tile is YELLOW exactly when the names differ and both countries are
\* mapped to the same continent; it is GREEN exactly when the names are
\* equal.
C19_CountryTile ==
  (call.fn = "country" /\ call.stage = "out") =>
    LET g == call.guess
        a == call.answer
        Same == \E e1, e2 \in COUNTRY_TO_CONTINENT :
                  e1[1] = norm(g) /\ e2[1] = norm(a) /\ e1[2] = e2[2]
    IN /\ (norm(g) # norm(a) /\ (~Mapped(g) \/ ~Mapped(a))) => call.color = GREY
       /\ call.color = YELLOW <=> (norm(g) # norm(a) /\ Same)
       /\ call.color = GREEN <=> norm(g) = norm(a)

\* Two different countries, neither of them mapped, got GREY.
C19_Witness ==
  /\ call.fn = "country" /\ call.stage = "out"
  /\ ~Mapped(call.guess) /\ ~Mapped(call.answer)
  /\ norm(call.guess) # norm(call.answer)
  /\ call.color = GREY

\* C20: whatever the interleaving of the handlers of one player's guesses,
\* no session has attempts above MAX_ATTEMPTS and no attempt is stored
\* under an ordinal above MAX_ATTEMPTS in the committed store.
C20_Ceiling ==
  /\ \A r \in db.user_sessions : r.attempts <= MAX_ATTEMPTS
  /\ \A a \in db.user_attempts : a.n <= MAX_ATTEMPTS

\* C21: once a session is committed as finished, no later step changes its
\* committed row or its committed history: a guess handler that read the
\* session before it was finished records nothing afterwards. (The game is
\* started once and not restarted, so only guesses can write.)
C21_NoWriteAfterFinish ==
  [][\A r \in db.user_sessions :
       r.finished = 1 =>
         /\ get_session(db', r.user_id, r.session_key) = {r}
         /\ get_history(db', r.user_id, r.session_key)
              = get_history(db, r.user_id, r.session_key)]_vars

\* C22: of the selections that present the token of one offer, at most one
\* redeems it: no two handlers both end with a recorded guess or a created
\* challenge for the same player and token.
C22_RedeemedOnce ==
  \A h1, h2 \in Handlers :
    ( /\ h1 # h2
      /\ hs[h1].op = "click" /\ hs[h2].op = "click"
      /\ hs[h1].user = hs[h2].user /\ hs[h1].token = hs[h2].token
      /\ hs[h1].pc = "done" /\ hs[h2].pc = "done" )
    => ~( /\ hs[h1].reply \in Recorded \cup {"ChallengeCreated"}
          /\ hs[h2].reply \in Recorded \cup {"ChallengeCreated"} )

\* C23: in the committed store the ordinals stored for a session are
\* exactly 1..attempts and there is one attempt per ordinal, whatever the
\* interleaving of game starts (resets) and guesses on the same key.
C23_OrdinalsMatchCount ==
  \A r \in db.user_sessions :
    /\ Ordinals(db, r.user_id, r.session_key) = 1..r.attempts
    /\ Cardinality(get_history(db, r.user_id, r.session_key)) = r.attempts

\* C24: in the committed store a player whose pointer is set has a session
\* row for the pointer's key; the pointer changes only at the commit of a
\* game start (random, daily or challenge) of that player, which leaves it
\* at the key of the session that start has created or reset, so it is the
\* key of the most recently committed start; a join with an unknown code
\* ends with UnknownCode and leaves the store, the open transaction and the
\* lock as they were.
C24_ActivePointer ==
  /\ [](\A p \in db.user_active : get_session(db, p.user_id, p.session_key) # {})
  /\ [][/\ \A h \in Handlers :
            (hs[h].pc = "cr_commit" /\ hs'[h].pc = "done") =>
              /\ get_active_session(db', hs[h].user) = hs[h].key
              /\ Fresh(db', hs[h].user, hs[h].key)
              /\ get_session(db', hs[h].user, hs[h].key) # {}
        /\ \A u \in Users :
            {p \in db'.user_active : p.user_id = u} # {p \in db.user_active : p.user_id = u}
              => \E h \in Handlers :
                   /\ hs[h].pc = "cr_commit" /\ hs'[h].pc = "done"
                   /\ hs[h].user = u
                   /\ hs[h].op \in {"play", "daily", "join"}
        /\ \A h \in Handlers :
            ( /\ hs[h].pc = "idle" /\ hs'[h].op = "join"
              /\ ~CodeTaken(db, hs'[h].code) )
            => /\ hs'[h].pc = "done" /\ hs'[h].reply = "UnknownCode"
               /\ UNCHANGED <<db, tx, lock>>]_vars

\* A join with an unknown code was refused while the pointer is on the
\* challenge joined last and the daily and the random session exist too.
C24_Witness ==
  \E h \in Handlers :
    /\ hs[h].pc = "done" /\ hs[h].op = "join" /\ hs[h].reply = "UnknownCode"
    /\ get_active_session(db, 1) = ChalKey(1)
    /\ get_session(db, 1, DailyKey(TodayOrdinal)) # {}
    /\ \E r \in Rounds : get_session(db, 1, RandKey(r)) # {}
    /\ \E r \in get_session(db, 1, ChalKey(1)) : r.attempts = 0

====
